---- MODULE Spec2Model ----
(***************************************************************************)
(* count_perfect_complementary_seed_miranda.py: the record scanner (main)  *)
(* and the seed complementarity counter (process_alignment).               *)
(*                                                                         *)
(* A line of text is a sequence of tokens.  The fixed words the program    *)
(* looks for ("Read Sequence:", "Forward:", "Reverse:", "Query:", "Ref:",  *)
(* a transcript id, a gene annotation) are one token each; every other     *)
(* character is a token of its own.  Lines carry no line terminator.       *)
(* Cursors are 0-based as in the source: lines[main_i] is lines[main_i+1]  *)
(* here.                                                                   *)
(***************************************************************************)
EXTENDS Integers, Sequences, FiniteSets, TLC

VARIABLES
    lines,                 \* main: the report, f.readlines()
    selected_transcripts,  \* main: the selection set
    main_i,                \* main: the line counter i
    transcript,            \* main: id of the record being processed
    gene_name,             \* main
    gene_length,           \* main
    query_line,            \* main: the captured Query: line
    ref_line,              \* main: the captured Ref: line
    query_seq,             \* process_alignment: normalised, reversed query
    ref_seq,               \* process_alignment: normalised, reversed ref
    i,                     \* process_alignment: miRNA cursor
    j,                     \* process_alignment: mRNA cursor
    miRNA_pos,             \* process_alignment
    perfect_matches,       \* process_alignment
    wobble_pairs,          \* process_alignment
    output,                \* standard output: the printed result lines
    origin,                \* history: per printed line, the line numbers it came from
    pc                     \* control point: "outer", "inner", "loop", "done"

vars == <<lines, selected_transcripts, main_i, transcript, gene_name, gene_length,
          query_line, ref_line, query_seq, ref_seq, i, j, miRNA_pos,
          perfect_matches, wobble_pairs, output, origin, pc>>

mainVars == <<main_i, transcript, gene_name, gene_length, query_line, ref_line>>
counterVars == <<query_seq, ref_seq, i, j, miRNA_pos, perfect_matches, wobble_pairs>>
inputVars == <<lines, selected_transcripts>>

(***************************************************************************)
(* Bounds of the model.                                                    *)
(***************************************************************************)
MaxLines == 5
MaxQueryLen == 3
MaxRefLen == 2
BaseLen == 9

(***************************************************************************)
(* Characters and string helpers.                                          *)
(***************************************************************************)
Min(S) == CHOOSE x \in S : \A y \in S : x <= y

Reverse(s) == [k \in 1..Len(s) |-> s[Len(s) + 1 - k]]

IsSpace(c) == c = " "

\* str.upper() on one character
Upper(c) ==
    CASE c = "a" -> "A"
      [] c = "c" -> "C"
      [] c = "g" -> "G"
      [] c = "u" -> "U"
      [] c = "t" -> "T"
      [] c = "n" -> "N"
      [] OTHER -> c

\* str.lstrip / rstrip / strip
RECURSIVE LStrip(_)
LStrip(s) == IF s # <<>> /\ IsSpace(Head(s)) THEN LStrip(Tail(s)) ELSE s

RECURSIVE RStrip(_)
RStrip(s) ==
    IF s # <<>> /\ IsSpace(s[Len(s)]) THEN RStrip(SubSeq(s, 1, Len(s) - 1)) ELSE s

Strip(s) == RStrip(LStrip(s))

\* re.sub(r'^<label>\s*', '', s)
StripLabel(s, label) ==
    IF s # <<>> /\ Head(s) = label THEN LStrip(Tail(s)) ELSE s

\* re.sub(r'^[35]\'\s*', '', s)
StripLeadingMarker(s) ==
    IF Len(s) >= 2 /\ s[1] \in {"3", "5"} /\ s[2] = "'"
    THEN LStrip(SubSeq(s, 3, Len(s)))
    ELSE s

\* re.sub(r'\s*[35]\'$', '', s)
StripTrailingMarker(s) ==
    IF Len(s) >= 2 /\ s[Len(s) - 1] \in {"3", "5"} /\ s[Len(s)] = "'"
    THEN RStrip(SubSeq(s, 1, Len(s) - 2))
    ELSE s

(***************************************************************************)
(* Seed Complementarity Counter.                                           *)
(***************************************************************************)
seed_start == 2
seed_end == 8

\* base.upper().replace('T', 'U')
ToRNA(base) == IF Upper(base) = "T" THEN "U" ELSE Upper(base)

complementary_pairs == {<<"A", "U">>, <<"U", "A">>, <<"C", "G">>, <<"G", "C">>}

\* a comparison that forgets the upper-casing and the T-to-U replacement
is_perfect_match_Unfolded(base1, base2) == <<base1, base2>> \in complementary_pairs

is_perfect_match(base1, base2) == <<ToRNA(base1), ToRNA(base2)>> \in complementary_pairs

\* a wobble table that lists only one order of the pair
is_wobble_pair_OneWay(base1, base2) == <<ToRNA(base1), ToRNA(base2)>> \in {<<"G", "U">>}

is_wobble_pair(base1, base2) == <<ToRNA(base1), ToRNA(base2)>> \in {<<"G", "U">>, <<"U", "G">>}

\* lines 84-87 and 90-93, then the reversal of lines 96 and 98
Normalise(line, label) ==
    Reverse(StripTrailingMarker(StripLeadingMarker(Strip(StripLabel(line, label)))))

\* lines 105-114: the loop's state on entry
LoopEntry == [i |-> 0, j |-> 0, miRNA_pos |-> 0, perfect_matches |-> 0, wobble_pairs |-> 0]

\* the while condition of line 117
InLoop(st, qs, rs) == st.i < Len(qs) /\ st.j < Len(rs)

\* lines 122-124
SkipQuerySpace(st) == [st EXCEPT !.i = @ + 1]

\* lines 127-129
SkipRefSpace(st) == [st EXCEPT !.j = @ + 1]

\* a counter that also counts gap characters
CountPosition_Always(c_query, pos) == pos + 1

\* lines 132-133
CountPosition(c_query, pos) == IF c_query # "-" THEN pos + 1 ELSE pos

\* a window that leaves out position 8
InSeed_Exclusive(pos) == seed_start <= pos /\ pos < seed_end

\* line 136
InSeed(pos) == seed_start <= pos /\ pos <= seed_end

\* an in-window skip that advances one cursor, like the space rule
SeedSkip_QueryOnly(st) == [st EXCEPT !.i = @ + 1]

\* lines 138-145: the in-window skip advances both cursors
SeedSkip(st) == [st EXCEPT !.i = @ + 1, !.j = @ + 1]

\* lines 147-159: classify the pair, then advance both cursors
Classify(st, c_query, c_ref) ==
    LET c_query_base == Upper(c_query)
        c_ref_base == Upper(c_ref)
    IN  IF is_perfect_match(c_query_base, c_ref_base)
        THEN [st EXCEPT !.perfect_matches = @ + 1, !.i = @ + 1, !.j = @ + 1]
        ELSE IF is_wobble_pair(c_query_base, c_ref_base)
        THEN [st EXCEPT !.wobble_pairs = @ + 1, !.i = @ + 1, !.j = @ + 1]
        ELSE [st EXCEPT !.i = @ + 1, !.j = @ + 1]

\* lines 158-159 reached outside the seed window
Advance(st) == [st EXCEPT !.i = @ + 1, !.j = @ + 1]

\* lines 118-159: one iteration of the while loop
LoopBody(st, qs, rs) ==
    LET c_query == qs[st.i + 1]
        c_ref == rs[st.j + 1]
    IN  IF c_query = " " THEN SkipQuerySpace(st)
        ELSE IF c_ref = " " THEN SkipRefSpace(st)
        ELSE LET st1 == [st EXCEPT !.miRNA_pos = CountPosition(c_query, @)]
             IN  IF InSeed(st1.miRNA_pos)
                 THEN IF c_query \in {"-", " "} THEN SeedSkip(st1)
                      ELSE IF c_ref \in {"-", " "} THEN SeedSkip(st1)
                      ELSE Classify(st1, c_query, c_ref)
                 ELSE Advance(st1)

RECURSIVE RunLoop(_, _, _)
RunLoop(st, qs, rs) ==
    IF InLoop(st, qs, rs) THEN RunLoop(LoopBody(st, qs, rs), qs, rs) ELSE st

\* lines 72-162: the function as a whole
process_alignment(ql, rl) ==
    LET st == RunLoop(LoopEntry, Normalise(ql, "Query:"), Normalise(rl, "Ref:"))
    IN  <<st.perfect_matches, st.wobble_pairs>>

(***************************************************************************)
(* Record Scanner: what main asks of a line.                               *)
(***************************************************************************)
TranscriptIds == {"tx1", "tx2"}
GeneToken == "gene=geneA(500 nt)"

\* line.startswith('Read Sequence:')
StartsReadSequence(line) == line # <<>> /\ Head(line) = "Read Sequence:"

\* re.search(r'Read Sequence:(\S+)', line): the id, or "" when there is no match
TranscriptOf(line) ==
    IF Len(line) >= 2 /\ line[1] = "Read Sequence:" /\ line[2] \in TranscriptIds
    THEN line[2]
    ELSE ""

\* re.search(r'gene=(\S+)\((\d+) nt\)', line): <<gene_name, gene_length>>
GeneOf(line) ==
    IF \E k \in 1..Len(line) : line[k] = GeneToken
    THEN <<"geneA", "500">>
    ELSE <<"", "">>

\* 'Forward:' in line or 'Reverse:' in line
HasMarker(line) == \E k \in 1..Len(line) : line[k] \in {"Forward:", "Reverse:"}

\* line.strip().startswith(label)
StartsLabel(line, label) == Strip(line) # <<>> /\ Head(Strip(line)) = label

\* line.strip().startswith('Query:')
StartsQuery(line) == StartsLabel(line, "Query:")

\* line.strip().startswith('Ref:')
StartsRef(line) == StartsLabel(line, "Ref:")

\* a scan that starts over from the first line instead of from the cursor
ScanTo_FromStart(ls, from, label) ==
    LET hits == {k \in 0..(Len(ls) - 1) : StartsLabel(ls[k + 1], label)}
    IN  IF hits = {} THEN Len(ls) ELSE Min(hits)

\* the while loops of lines 207-208 and 214-215: the first index at or after
\* from (0-based) of a line whose stripped text starts with label, or len(lines)
ScanTo(ls, from, label) ==
    LET hits == {k \in from..(Len(ls) - 1) : StartsLabel(ls[k + 1], label)}
    IN  IF hits = {} THEN Len(ls) ELSE Min(hits)

\* line 223: the printed line, as its fields
ResultLine(t, gn, gl, pm, wp) ==
    [transcript |-> t, gene_name |-> gn, gene_length |-> gl,
     perfect_matches |-> pm, wobble_pairs |-> wp]

(***************************************************************************)
(* Inputs: the reports and selection sets the program is run on.           *)
(***************************************************************************)
HeaderTx1 == <<"Read Sequence:", "tx1", " ", GeneToken>>
HeaderTx2 == <<"Read Sequence:", "tx2">>
HeaderNoId == <<"Read Sequence:", " ">>
MarkerLine == <<" ", "Forward:">>
OtherLine == <<" ", "Energy:">>

QueryLine(body) == <<" ", "Query:", " ", "3", "'", " ">> \o body \o <<" ", "5", "'">>
RefLine(body) == <<" ", "Ref:", " ", "5", "'", " ">> \o body \o <<" ", "3", "'">>

\* the lines the scanner's reports are built from
ScanLines ==
    {HeaderTx1, HeaderTx2, HeaderNoId, MarkerLine, OtherLine,
     QueryLine(<<"G", "A">>), RefLine(<<"U", "U">>)}

ScanReports == UNION {[1..n -> ScanLines] : n \in 0..MaxLines}

\* every sequence over S of length at most n
SeqsUpTo(S, n) == UNION {[1..m -> S] : m \in 0..n}

ShortChars == {"A", "U", "G", "-", " "}
AllChars == {"A", "C", "G", "U", "T", "a", "c", "g", "u", "t", "N", "-", " "}

\* a fully complementary pair of displayed sequences of length BaseLen
BaseQuery == [k \in 1..BaseLen |-> <<"A", "C", "G", "U">>[((k - 1) % 4) + 1]]
BaseRef == [k \in 1..BaseLen |-> <<"U", "G", "C", "A">>[((k - 1) % 4) + 1]]

Substitute(s, p, c) == [s EXCEPT ![p] = c]
Insert(s, p, c) == SubSeq(s, 1, p - 1) \o <<c>> \o SubSeq(s, p, Len(s))
Delete(s, p) == SubSeq(s, 1, p - 1) \o SubSeq(s, p + 1, Len(s))

\* s, and s with one character substituted, inserted or deleted
Edits(s) ==
    {s} \cup {Substitute(s, p, c) : p \in 1..Len(s), c \in AllChars}
        \cup {Insert(s, p, c) : p \in 1..(Len(s) + 1), c \in AllChars}
        \cup {Delete(s, p) : p \in 1..Len(s)}

\* the Query/Ref bodies the counter is run on
CounterInputs ==
    (SeqsUpTo(ShortChars, MaxQueryLen) \X SeqsUpTo(ShortChars, MaxRefLen))
    \cup {<<q, BaseRef>> : q \in Edits(BaseQuery)}
    \cup {<<BaseQuery, r>> : r \in Edits(BaseRef)}
    \cup {<<Substitute(BaseQuery, p, c[1]), Substitute(BaseRef, p, c[2])>> :
            p \in 1..BaseLen, c \in AllChars \X AllChars}

BlockReports ==
    {<<HeaderTx1, MarkerLine, QueryLine(b[1]), RefLine(b[2])>> : b \in CounterInputs}

\* the selection sets the scanner is run with
Selections == {{"tx1"}, {"tx1", "tx2"}}

(***************************************************************************)
(* The program.                                                            *)
(***************************************************************************)
Init ==
    /\ \/ lines \in ScanReports /\ selected_transcripts \in Selections
       \/ lines \in BlockReports /\ selected_transcripts = {"tx1"}
    /\ main_i = 0
    /\ transcript = ""
    /\ gene_name = ""
    /\ gene_length = ""
    /\ query_line = <<>>
    /\ ref_line = <<>>
    /\ query_seq = <<>>
    /\ ref_seq = <<>>
    /\ i = 0
    /\ j = 0
    /\ miRNA_pos = 0
    /\ perfect_matches = 0
    /\ wobble_pairs = 0
    /\ output = <<>>
    /\ origin = <<>>
    /\ pc = "outer"

CurrentLine == lines[main_i + 1]

\* lines 233-235: the line does not start with 'Read Sequence:'
SkipLine ==
    /\ pc = "outer"
    /\ main_i < Len(lines)
    /\ ~StartsReadSequence(CurrentLine)
    /\ main_i' = main_i + 1
    /\ UNCHANGED <<inputVars, transcript, gene_name, gene_length, query_line, ref_line,
                   counterVars, output, origin, pc>>

\* lines 230-232: no transcript name could be extracted
SkipNoId ==
    /\ pc = "outer"
    /\ main_i < Len(lines)
    /\ StartsReadSequence(CurrentLine)
    /\ TranscriptOf(CurrentLine) = ""
    /\ main_i' = main_i + 1
    /\ UNCHANGED <<inputVars, transcript, gene_name, gene_length, query_line, ref_line,
                   counterVars, output, origin, pc>>

\* lines 227-229: the transcript is not selected
SkipUnselected ==
    /\ pc = "outer"
    /\ main_i < Len(lines)
    /\ StartsReadSequence(CurrentLine)
    /\ TranscriptOf(CurrentLine) # ""
    /\ TranscriptOf(CurrentLine) \notin selected_transcripts
    /\ transcript' = TranscriptOf(CurrentLine)
    /\ main_i' = main_i + 1
    /\ UNCHANGED <<inputVars, gene_name, gene_length, query_line, ref_line,
                   counterVars, output, origin, pc>>

\* lines 187-199: a selected record opens
EnterRecord ==
    /\ pc = "outer"
    /\ main_i < Len(lines)
    /\ StartsReadSequence(CurrentLine)
    /\ TranscriptOf(CurrentLine) \in selected_transcripts
    /\ transcript' = TranscriptOf(CurrentLine)
    /\ gene_name' = GeneOf(CurrentLine)[1]
    /\ gene_length' = GeneOf(CurrentLine)[2]
    /\ main_i' = main_i + 1
    /\ pc' = "inner"
    /\ UNCHANGED <<inputVars, query_line, ref_line, counterVars, output, origin>>

\* line 201: the inner loop ends at the next 'Read Sequence:' line or the end
InnerEnd ==
    /\ pc = "inner"
    /\ IF main_i < Len(lines) THEN StartsReadSequence(CurrentLine) ELSE TRUE
    /\ pc' = "outer"
    /\ UNCHANGED <<inputVars, mainVars, counterVars, output, origin>>

\* lines 224-226: not an alignment block
InnerNext ==
    /\ pc = "inner"
    /\ main_i < Len(lines)
    /\ ~StartsReadSequence(CurrentLine)
    /\ ~HasMarker(CurrentLine)
    /\ main_i' = main_i + 1
    /\ UNCHANGED <<inputVars, transcript, gene_name, gene_length, query_line, ref_line,
                   counterVars, output, origin, pc>>

AtBlock ==
    /\ pc = "inner"
    /\ main_i < Len(lines)
    /\ ~StartsReadSequence(CurrentLine)
    /\ HasMarker(CurrentLine)

QueryAt == ScanTo(lines, main_i, "Query:")
RefAt == ScanTo(lines, QueryAt + 1, "Ref:")

\* lines 207-210: no 'Query:' line before the end of input
BlockNoQuery ==
    /\ AtBlock
    /\ QueryAt >= Len(lines)
    /\ main_i' = QueryAt
    /\ pc' = "outer"
    /\ UNCHANGED <<inputVars, transcript, gene_name, gene_length, query_line, ref_line,
                   counterVars, output, origin>>

\* a scanner that prints a line for the block that has no 'Ref:' line
BlockNoRef_Printing ==
    /\ AtBlock
    /\ QueryAt < Len(lines)
    /\ RefAt >= Len(lines)
    /\ query_line' = Strip(lines[QueryAt + 1])
    /\ main_i' = RefAt
    /\ output' = Append(output, ResultLine(transcript, gene_name, gene_length, 0, 0))
    /\ origin' = Append(origin, [marker |-> main_i, query |-> QueryAt, ref |-> RefAt])
    /\ pc' = "outer"
    /\ UNCHANGED <<inputVars, transcript, gene_name, gene_length, ref_line, counterVars>>

\* lines 207-217: a 'Query:' line, but no 'Ref:' line before the end of input
BlockNoRef ==
    /\ AtBlock
    /\ QueryAt < Len(lines)
    /\ RefAt >= Len(lines)
    /\ query_line' = Strip(lines[QueryAt + 1])
    /\ main_i' = RefAt
    /\ pc' = "outer"
    /\ UNCHANGED <<inputVars, transcript, gene_name, gene_length, ref_line,
                   counterVars, output, origin>>

\* lines 207-221 and 84-114: both lines found, process_alignment is entered
BlockCall ==
    /\ AtBlock
    /\ QueryAt < Len(lines)
    /\ RefAt < Len(lines)
    /\ query_line' = Strip(lines[QueryAt + 1])
    /\ ref_line' = Strip(lines[RefAt + 1])
    /\ main_i' = RefAt + 1
    /\ query_seq' = Normalise(query_line', "Query:")
    /\ ref_seq' = Normalise(ref_line', "Ref:")
    /\ i' = LoopEntry.i
    /\ j' = LoopEntry.j
    /\ miRNA_pos' = LoopEntry.miRNA_pos
    /\ perfect_matches' = LoopEntry.perfect_matches
    /\ wobble_pairs' = LoopEntry.wobble_pairs
    /\ origin' = Append(origin, [marker |-> main_i, query |-> QueryAt, ref |-> RefAt])
    /\ pc' = "loop"
    /\ UNCHANGED <<inputVars, transcript, gene_name, gene_length, output>>

LoopState ==
    [i |-> i, j |-> j, miRNA_pos |-> miRNA_pos,
     perfect_matches |-> perfect_matches, wobble_pairs |-> wobble_pairs]

\* lines 117-159: one iteration of process_alignment's loop
LoopIteration ==
    /\ pc = "loop"
    /\ InLoop(LoopState, query_seq, ref_seq)
    /\ LET st == LoopBody(LoopState, query_seq, ref_seq)
       IN  /\ i' = st.i
           /\ j' = st.j
           /\ miRNA_pos' = st.miRNA_pos
           /\ perfect_matches' = st.perfect_matches
           /\ wobble_pairs' = st.wobble_pairs
    /\ UNCHANGED <<inputVars, mainVars, query_seq, ref_seq, output, origin, pc>>

\* lines 162 and 223: the loop is over, the result line is printed
Return ==
    /\ pc = "loop"
    /\ ~InLoop(LoopState, query_seq, ref_seq)
    /\ output' = Append(output,
                        ResultLine(transcript, gene_name, gene_length,
                                   perfect_matches, wobble_pairs))
    /\ pc' = "inner"
    /\ UNCHANGED <<inputVars, mainVars, counterVars, origin>>

\* line 180: the outer loop ends
Finish ==
    /\ pc = "outer"
    /\ main_i >= Len(lines)
    /\ pc' = "done"
    /\ UNCHANGED <<inputVars, mainVars, counterVars, output, origin>>

Next ==
    \/ SkipLine
    \/ SkipNoId
    \/ SkipUnselected
    \/ EnterRecord
    \/ InnerEnd
    \/ InnerNext
    \/ BlockNoQuery
    \/ BlockNoRef
    \/ BlockCall
    \/ LoopIteration
    \/ Return
    \/ Finish

Spec == Init /\ [][Next]_vars

(***************************************************************************)
(* Vocabulary of the properties.  Line numbers are 0-based, as main_i.     *)
(***************************************************************************)
NumLines == Len(lines)

LineAt(k) == lines[k + 1]

\* the 'Read Sequence:' line that opens the record line k lies in, or -1
HeaderOf(k) ==
    LET hs == {h \in 0..k : StartsReadSequence(LineAt(h))}
    IN  IF hs = {} THEN -1 ELSE CHOOSE h \in hs : \A g \in hs : g <= h

\* the transcript id of the record line k lies in, or "" when it has none
RecordIdOf(k) == IF HeaderOf(k) < 0 THEN "" ELSE TranscriptOf(LineAt(HeaderOf(k)))

Emitted == 1..Len(output)

\* process_alignment's loop has run to its end and the result is about to be printed
LoopOver == pc = "loop" /\ (i >= Len(query_seq) \/ j >= Len(ref_seq))

LoopRunning == pc = "loop" /\ i < Len(query_seq) /\ j < Len(ref_seq)

(***************************************************************************)
(* C1. A block whose Query: or Ref: line does not come before the next     *)
(* 'Read Sequence:' line yields no output line, and the records after it   *)
(* are reported under their own ids from their own lines: every printed    *)
(* line has its marker, Query: and Ref: lines in one record, that record   *)
(* is selected, and the line carries that record's id.                     *)
(***************************************************************************)
C1_NoOutputAcrossRecords ==
    \A k \in Emitted :
        /\ HeaderOf(origin[k].marker) >= 0
        /\ HeaderOf(origin[k].query) = HeaderOf(origin[k].marker)
        /\ HeaderOf(origin[k].ref) = HeaderOf(origin[k].marker)
        /\ output[k].transcript = RecordIdOf(origin[k].marker)
        /\ output[k].transcript \in selected_transcripts

(***************************************************************************)
(* C2. A record whose transcript id is not selected yields no output: no   *)
(* printed line carries its id, and no printed line is computed from a     *)
(* Query: or Ref: line inside its span.                                    *)
(***************************************************************************)
UnselectedIds == TranscriptIds \ selected_transcripts

C2_UnselectedYieldsNothing ==
    \A k \in Emitted :
        /\ output[k].transcript \notin UnselectedIds
        /\ RecordIdOf(origin[k].query) \notin UnselectedIds
        /\ RecordIdOf(origin[k].ref) \notin UnselectedIds

(***************************************************************************)
(* C3. When the scan is done the output holds exactly one result line per  *)
(* alignment block of a selected record, in input order.  The blocks of a  *)
(* record are read off its span as the claim words them: a marker line,    *)
(* the first Query: line behind it in the record, the first Ref: line      *)
(* behind that in the record; the next block is looked for behind the      *)
(* Ref: line.  Each result line carries the id of its block's record.      *)
(***************************************************************************)
\* the first line number in from..(to - 1) whose line passes the test, or to
FirstMarker(from, to) ==
    LET hits == {k \in from..(to - 1) : HasMarker(LineAt(k))}
    IN  IF hits = {} THEN to ELSE Min(hits)

FirstLabel(from, to, label) ==
    LET hits == {k \in from..(to - 1) : StartsLabel(LineAt(k), label)}
    IN  IF hits = {} THEN to ELSE Min(hits)

\* the end of the record that line k lies in: the next 'Read Sequence:' line
RecordEnd(k) ==
    LET hs == {h \in (k + 1)..(NumLines - 1) : StartsReadSequence(LineAt(h))}
    IN  IF hs = {} THEN NumLines ELSE Min(hs)

\* the blocks in the lines from..(to - 1) of one record, in order
RECURSIVE BlocksIn(_, _)
BlocksIn(from, to) ==
    LET m == FirstMarker(from, to)
        q == FirstLabel(m, to, "Query:")
        r == FirstLabel(q + 1, to, "Ref:")
    IN  IF m >= to \/ q >= to \/ r >= to
        THEN <<>>
        ELSE <<[marker |-> m, query |-> q, ref |-> r]>> \o BlocksIn(r + 1, to)

\* the blocks of the selected records at or behind line h, in order
RECURSIVE BlocksOfSelected(_)
BlocksOfSelected(h) ==
    IF h >= NumLines THEN <<>>
    ELSE IF StartsReadSequence(LineAt(h)) /\ TranscriptOf(LineAt(h)) \in selected_transcripts
    THEN BlocksIn(h + 1, RecordEnd(h)) \o BlocksOfSelected(RecordEnd(h))
    ELSE BlocksOfSelected(h + 1)

C3_OneLinePerBlockInOrder ==
    pc = "done" =>
        /\ Len(output) = Len(BlocksOfSelected(0))
        /\ origin = BlocksOfSelected(0)
        /\ \A k \in Emitted : output[k].transcript = RecordIdOf(origin[k].marker)

(***************************************************************************)
(* C4. A Query/Ref pair without gap characters or internal spaces, with    *)
(* at least 8 bases in each sequence, whose pairs at miRNA positions 2..8  *)
(* (counted from the end of the displayed line) are all A-U or C-G (T read *)
(* as U, any case) gives perfect_matches = 7 and wobble_pairs = 0.         *)
(***************************************************************************)
Letters == {"A", "C", "G", "U", "T", "a", "c", "g", "u", "t", "N"}

\* the nucleotide letters of a displayed line, in display order
BasesOf(line) == SelectSeq(line, LAMBDA c : c \in Letters)

\* the letters of the line stand next to each other
Contiguous(line) ==
    \A a \in 1..Len(line) : \A b \in a..Len(line) : \A m \in a..b :
        (line[a] \in Letters /\ line[b] \in Letters) => line[m] \in Letters

\* a base with case folded and T read as U
Fold(c) ==
    CASE c \in {"A", "a"} -> "A"
      [] c \in {"C", "c"} -> "C"
      [] c \in {"G", "g"} -> "G"
      [] c \in {"U", "u", "T", "t"} -> "U"
      [] OTHER -> c

\* the base at miRNA position p: the p-th from the end of the displayed line
FromEnd(bs, p) == bs[Len(bs) + 1 - p]

FullSeed(ql, rl) ==
    /\ \A k \in 1..Len(ql) : ql[k] # "-"
    /\ \A k \in 1..Len(rl) : rl[k] # "-"
    /\ Contiguous(ql)
    /\ Contiguous(rl)
    /\ Len(BasesOf(ql)) >= 8
    /\ Len(BasesOf(rl)) >= 8
    /\ \A p \in 2..8 :
          {Fold(FromEnd(BasesOf(ql), p)), Fold(FromEnd(BasesOf(rl), p))}
              \in {{"A", "U"}, {"C", "G"}}

C4_FullSeedCountsSeven ==
    (LoopOver /\ FullSeed(query_line, ref_line))
        => (perfect_matches = 7 /\ wobble_pairs = 0)

\* a full seed written with a lower-case base or a T has been counted
C4_Witness ==
    /\ LoopOver
    /\ FullSeed(query_line, ref_line)
    /\ \E k \in 1..Len(query_line) : query_line[k] \in {"t", "T", "a", "c", "g", "u"}
    /\ perfect_matches = 7

(***************************************************************************)
(* C5. Swapping the two sequences does not change the result.  As stated,  *)
(* for every pair of sequences over bases, gaps and padding spaces.        *)
(***************************************************************************)
\* the same sequence under the other label
Relabel(line, label) == <<label>> \o Tail(line)

SwappedResult ==
    process_alignment(Relabel(ref_line, "Query:"), Relabel(query_line, "Ref:"))

HasGap(line) == \E k \in 1..Len(line) : line[k] = "-"

C5_SwapInvariantAlways ==
    LoopOver => <<perfect_matches, wobble_pairs>> = SwappedResult

\* C5 as amended: swapping two sequences that hold no gap character '-'
\* (bases and padding spaces only) does not change the result.
C5_SwapInvariantWithoutGaps ==
    (LoopOver /\ ~HasGap(query_line) /\ ~HasGap(ref_line))
        => <<perfect_matches, wobble_pairs>> = SwappedResult

\* two different gapless sequences, one padded inside, with a wobble pair counted
C5_Witness ==
    /\ LoopOver
    /\ ~HasGap(query_line)
    /\ ~HasGap(ref_line)
    /\ Tail(query_line) # Tail(ref_line)
    /\ \E k \in 1..Len(ref_seq) : ref_seq[k] = " "
    /\ wobble_pairs >= 1

(***************************************************************************)
(* C6. is_perfect_match and is_wobble_pair are symmetric on the bases      *)
(* A, C, G, U, T in either case; reading T as U or changing the case of an *)
(* argument changes neither; no pair is both perfect and wobble.  Stated   *)
(* of every base of the query against every base of the ref the counter    *)
(* is run on; the runs cover all pairs of bases.                           *)
(***************************************************************************)
Bases == {"A", "C", "G", "U", "T", "a", "c", "g", "u", "t"}

\* the other case of a base, and the base with T and U exchanged
OtherCase(c) ==
    CASE c = "A" -> "a" [] c = "a" -> "A"
      [] c = "C" -> "c" [] c = "c" -> "C"
      [] c = "G" -> "g" [] c = "g" -> "G"
      [] c = "U" -> "u" [] c = "u" -> "U"
      [] c = "T" -> "t" [] c = "t" -> "T"

OtherTU(c) ==
    CASE c = "T" -> "U" [] c = "U" -> "T"
      [] c = "t" -> "u" [] c = "u" -> "t"
      [] OTHER -> c

\* the bases the counter has been handed in its two sequences
QueryBases == {query_seq[k] : k \in 1..Len(query_seq)} \cap Bases
RefBases == {ref_seq[k] : k \in 1..Len(ref_seq)} \cap Bases

C6_PairTestsSymmetric ==
    LoopOver => \A x \in QueryBases : \A y \in RefBases :
        /\ is_perfect_match(x, y) = is_perfect_match(y, x)
        /\ is_wobble_pair(x, y) = is_wobble_pair(y, x)
        /\ is_perfect_match(OtherCase(x), y) = is_perfect_match(x, y)
        /\ is_perfect_match(x, OtherCase(y)) = is_perfect_match(x, y)
        /\ is_wobble_pair(OtherCase(x), y) = is_wobble_pair(x, y)
        /\ is_wobble_pair(x, OtherCase(y)) = is_wobble_pair(x, y)
        /\ is_perfect_match(OtherTU(x), y) = is_perfect_match(x, y)
        /\ is_perfect_match(x, OtherTU(y)) = is_perfect_match(x, y)
        /\ is_wobble_pair(OtherTU(x), y) = is_wobble_pair(x, y)
        /\ is_wobble_pair(x, OtherTU(y)) = is_wobble_pair(x, y)
        /\ ~(is_perfect_match(x, y) /\ is_wobble_pair(x, y))
        /\ is_perfect_match(x, y) = ({Fold(x), Fold(y)} \in {{"A", "U"}, {"C", "G"}})
        /\ is_wobble_pair(x, y) = ({Fold(x), Fold(y)} = {"G", "U"})

\* a run that met the pair (g, t) or (g, T) and counted a wobble pair, in
\* sequences that also hold upper-case bases
C6_Witness ==
    /\ LoopOver
    /\ {"g", "U", "A"} \subseteq QueryBases
    /\ RefBases \cap {"t", "T"} # {}
    /\ \E k \in 1..i : query_seq[k] = "g" /\ k <= Len(ref_seq) /\ ref_seq[k] \in {"t", "T"}
    /\ wobble_pairs >= 1

(***************************************************************************)
(* C7. During the scan miRNA_pos is the number of non-gap query characters *)
(* paired so far (the consumed query characters that are neither '-' nor   *)
(* a skipped space); a count goes up only in a step that leaves miRNA_pos  *)
(* in 2..8 with neither current character a gap or a space, and then by    *)
(* one; so perfect_matches + wobble_pairs <= 7.                            *)
(***************************************************************************)
PairedBases == {k \in 1..i : query_seq[k] \notin {"-", " "}}

CountsChanged == perfect_matches' # perfect_matches \/ wobble_pairs' # wobble_pairs

C7_PositionAndWindow ==
    /\ [](pc = "loop" => miRNA_pos = Cardinality(PairedBases))
    /\ [](perfect_matches + wobble_pairs <= 7)
    /\ [][(LoopRunning /\ CountsChanged) =>
            /\ miRNA_pos' \in 2..8
            /\ miRNA_pos' = miRNA_pos + 1
            /\ query_seq[i + 1] \notin {"-", " "}
            /\ ref_seq[j + 1] \notin {"-", " "}
            /\ perfect_matches' + wobble_pairs' = perfect_matches + wobble_pairs + 1]_vars

\* a gap of the query was passed over and seven positions were classified
C7_Witness ==
    /\ LoopOver
    /\ \E k \in 1..i : query_seq[k] = "-"
    /\ perfect_matches + wobble_pairs = 7
    /\ miRNA_pos < i

(***************************************************************************)
(* C8. Cursor policy: a step at a query space advances only the query      *)
(* cursor; a step at a ref space (query not a space) advances only the ref *)
(* cursor; both leave the other cursor, miRNA_pos and the counts alone.    *)
(* Every other step, the in-window gap skip included, advances both        *)
(* cursors by exactly one.                                                 *)
(***************************************************************************)
C8_CursorPolicy ==
    [][LoopRunning =>
        IF query_seq[i + 1] = " "
        THEN /\ i' = i + 1
             /\ UNCHANGED <<j, miRNA_pos, perfect_matches, wobble_pairs>>
        ELSE IF ref_seq[j + 1] = " "
        THEN /\ j' = j + 1
             /\ UNCHANGED <<i, miRNA_pos, perfect_matches, wobble_pairs>>
        ELSE /\ i' = i + 1
             /\ j' = j + 1]_vars

\* a ref space was skipped alone, and later a gap inside the window was
\* passed with both cursors
C8_Witness ==
    /\ pc = "loop"
    /\ i >= 1
    /\ j > i
    /\ \E k \in 1..j : ref_seq[k] = " "
    /\ (query_seq[i] = "-" \/ ref_seq[j] = "-")
    /\ miRNA_pos \in 2..8

(***************************************************************************)
(* C9. A block of a selected record whose Query: line, or whose Ref: line  *)
(* after it, is not found before the end of input ends the processing of   *)
(* the record: nothing is printed for it, the lines already printed stay,  *)
(* and the scan finishes normally.                                         *)
(***************************************************************************)
IncompleteAtEnd ==
    /\ pc = "inner"
    /\ main_i < NumLines
    /\ ~StartsReadSequence(CurrentLine)
    /\ HasMarker(CurrentLine)
    /\ ~\E q \in main_i..(NumLines - 1) : \E r \in (q + 1)..(NumLines - 1) :
            StartsQuery(LineAt(q)) /\ StartsRef(LineAt(r))

C9_IncompleteBlockAborts ==
    /\ [][IncompleteAtEnd =>
            /\ output' = output
            /\ origin' = origin
            /\ pc' = "outer"
            /\ main_i' = NumLines]_vars
    /\ [][(pc = "outer" /\ main_i >= NumLines) => (pc' = "done" /\ output' = output)]_vars
    /\ [](pc = "done" => Len(origin) = Len(output))

\* the scan is done, a line was printed, and in the same record a marker
\* follows the last printed block: its block was incomplete
C9_Witness ==
    /\ pc = "done"
    /\ Len(output) >= 1
    /\ \E m \in (origin[Len(origin)].ref + 1)..(NumLines - 1) :
          /\ HasMarker(LineAt(m))
          /\ HeaderOf(m) = HeaderOf(origin[Len(origin)].marker)

(***************************************************************************)
(* C10. Termination: every iteration of the scanner's outer and inner      *)
(* loops moves the line index forward, the index never passes the end of   *)
(* input and the scan ends with it there; every iteration of the counter's *)
(* loop raises the sum of its cursors, and the loop is left as soon as a   *)
(* cursor reaches the end of its sequence.                                 *)
(***************************************************************************)
IterationStart ==
    \/ pc = "outer" /\ main_i < NumLines
    \/ pc = "inner" /\ main_i < NumLines /\ ~StartsReadSequence(CurrentLine)

C10_Termination ==
    /\ [][IterationStart => main_i' > main_i]_vars
    /\ [][main_i' >= main_i /\ main_i' <= NumLines]_vars
    /\ [](pc = "done" => main_i = NumLines)
    /\ [][LoopRunning => (pc' = "loop" /\ i' + j' > i + j)]_vars
    /\ [][LoopOver => (pc' # "loop" /\ i' = i /\ j' = j)]_vars

\* the scan is done after a block whose counter loop ran with a space skipped
C10_Witness ==
    /\ pc = "done"
    /\ Len(output) >= 1
    /\ i # j
    /\ main_i = NumLines

====
